---- MODULE Spec2Model ----
(***************************************************************************)
(* A model of gristle/common.py: the dialect resolver get_dialect and the  *)
(* column lookup colnames_to_coloff0, together with the parts of           *)
(* gristle/file_type.py they rely on (FileTyper.analyze_file,              *)
(* get_quote_number, FileTyper._count_records).                            *)
(***************************************************************************)
EXTENDS Integers, Sequences, FiniteSets, TLC

(***************************************************************************)
(* Python values.  None, strings, integers and booleans are kept apart by  *)
(* a tag, so that "is None" and "==" can be asked of any value.            *)
(***************************************************************************)
None == [t |-> "None"]
S(s) == [t |-> "str", v |-> s]
N(i) == [t |-> "int", v |-> i]
B(b) == [t |-> "bool", v |-> b]

(***************************************************************************)
(* Bounds of the model.                                                    *)
(***************************************************************************)
MaxFiles == 2
MaxLines == 3
MaxLineBytes == 2
MaxReadLimit == 4
MaxCols == 3
MaxLookups == 2

RECURSIVE SeqsUpTo(_, _)
SeqsUpTo(X, n) ==
    IF n = 0 THEN {<<>>}
    ELSE LET shorter == SeqsUpTo(X, n - 1)
         IN shorter \cup {Append(s, x) : s \in {t \in shorter : Len(t) = n - 1}, x \in X}

Range(s) == {s[i] : i \in DOMAIN s}

(***************************************************************************)
(* The file system the resolver reads.  "-" is the stdin marker and is     *)
(* not a file on disk.  For a file on disk the model records its number    *)
(* of lines and what sampling it yields.                                   *)
(***************************************************************************)
Paths == {"-", "missing.csv", "empty.csv", "data.csv", "flat.txt", "vague.csv"}

isfile(fn) == fn \in {"empty.csv", "data.csv", "flat.txt", "vague.csv"}

LineCount(fn) == IF fn = "empty.csv" THEN 0 ELSE 100

\* What the sniffer infers from a non-empty file when no hint is given:
\*   data.csv   pipe-delimited, unquoted, no header
\*   flat.txt   no candidate delimiter splits any line
\*   vague.csv  inference leaves delimiter, quoting and header unset
Sniff(fn) ==
    CASE fn = "data.csv" ->
           [ambiguous |-> FALSE, delimiter |-> S("|"), quoting |-> N(3),
            quotechar |-> S("\""), hasheader |-> B(FALSE)]
      [] fn = "flat.txt" ->
           [ambiguous |-> TRUE, delimiter |-> None, quoting |-> N(3),
            quotechar |-> S("\""), hasheader |-> None]
      [] OTHER ->
           [ambiguous |-> FALSE, delimiter |-> None, quoting |-> None,
            quotechar |-> None, hasheader |-> None]

(***************************************************************************)
(* file_type.get_quote_number: the csv module's number of a quoting name.  *)
(***************************************************************************)
QuoteNumbers ==
    [quote_minimal |-> 0, quote_all |-> 1, quote_nonnumeric |-> 2, quote_none |-> 3]

get_quote_number(quotename) ==
    IF quotename = None THEN None ELSE N(QuoteNumbers[quotename.v])

QuotingValues == {N(QuoteNumbers[n]) : n \in DOMAIN QuoteNumbers}

(***************************************************************************)
(* isnumeric: float(number) succeeds.  int(): the integer of a numeric     *)
(* value.  Both are given on the integers and the numeric strings below.   *)
(***************************************************************************)
NumericStrings == [s \in {"0", "1", "2", "3"} |->
                     CASE s = "0" -> 0 [] s = "1" -> 1 [] s = "2" -> 2 [] OTHER -> 3]

isnumeric(number) ==
    \/ number.t = "int"
    \/ number.t = "str" /\ number.v \in DOMAIN NumericStrings

int(x) == IF x.t = "int" THEN x.v ELSE NumericStrings[x.v]

(***************************************************************************)
(* FileTyper(fn, delimiter, recdelimiter, hasheader, quoting, quote_char)  *)
(* .analyze_file() followed by a read of .dialect.  A hint takes           *)
(* precedence over inference; the dialect is a new object.                 *)
(***************************************************************************)
analyze_file(fn, h) ==
    LET sn == Sniff(fn)
        pick(hint, inferred) == IF hint # None THEN hint ELSE inferred
    IN IF LineCount(fn) = 0 THEN [exc |-> "IOErrorEmptyFile"]
       ELSE IF h.delimiter = None /\ sn.ambiguous THEN [exc |-> "AmbiguousDialectError"]
       ELSE [exc |-> "none",
             dialect |-> [delimiter      |-> pick(h.delimiter, sn.delimiter),
                          quoting        |-> pick(get_quote_number(h.quotename), sn.quoting),
                          quotechar      |-> pick(h.quotechar, sn.quotechar),
                          lineterminator |-> pick(h.recdelimiter, S("\n")),
                          hasheader      |-> pick(h.hasheader, sn.hasheader)]]

(***************************************************************************)
(* get_dialect, stdin branch: the attributes are assigned on csv.Dialect,  *)
(* the class itself.                                                       *)
(***************************************************************************)
StdinDialect(h) ==
    [delimiter      |-> h.delimiter,
     quoting        |-> get_quote_number(h.quotename),
     quotechar      |-> h.quotechar,
     lineterminator |-> S("\n"),
     hasheader      |-> h.hasheader]

(***************************************************************************)
(* get_dialect, file branch: the loop over the candidates from position i. *)
(* checked and analysed are the positions on which isfile and              *)
(* analyze_file were called so far.                                        *)
(***************************************************************************)
\* Variants of the loop, each with one slip.
\* The loop goes on after a candidate succeeded; the last success wins.
RECURSIVE ForFiles_NoBreak(_, _, _, _, _)
ForFiles_NoBreak(files, i, h, checked, analysed) ==
    IF i > Len(files)
    THEN [exc |-> "none", dialect |-> None, checked |-> checked, analysed |-> analysed]
    ELSE IF ~isfile(files[i])
    THEN [exc |-> "ValueError: file does not exist", dialect |-> None,
          checked |-> Append(checked, i), analysed |-> analysed]
    ELSE LET a == analyze_file(files[i], h)
             ch == Append(checked, i)
             an == Append(analysed, i)
             rest == ForFiles_NoBreak(files, i + 1, h, ch, an)
         IN IF a.exc = "none"
            THEN IF rest.exc = "none" /\ rest.dialect = None
                 THEN [rest EXCEPT !.dialect = a.dialect]
                 ELSE rest
            ELSE IF a.exc = "IOErrorEmptyFile"
            THEN rest
            ELSE [exc |-> a.exc, dialect |-> None, checked |-> ch, analysed |-> an]

\* An empty candidate ends the loop instead of continuing it.
ForFiles_BreakOnEmpty(files, i, h, checked, analysed) ==
    IF i > Len(files)
    THEN [exc |-> "none", dialect |-> None, checked |-> checked, analysed |-> analysed]
    ELSE IF ~isfile(files[i])
    THEN [exc |-> "ValueError: file does not exist", dialect |-> None,
          checked |-> Append(checked, i), analysed |-> analysed]
    ELSE LET a == analyze_file(files[i], h)
             ch == Append(checked, i)
             an == Append(analysed, i)
         IN IF a.exc = "none"
            THEN [exc |-> "none", dialect |-> a.dialect, checked |-> ch, analysed |-> an]
            ELSE IF a.exc = "IOErrorEmptyFile"
            THEN [exc |-> "none", dialect |-> None, checked |-> ch, analysed |-> an]
            ELSE [exc |-> a.exc, dialect |-> None, checked |-> ch, analysed |-> an]

\* Every error of a candidate is caught and the next candidate is tried.
RECURSIVE ForFiles_CatchAll(_, _, _, _, _)
ForFiles_CatchAll(files, i, h, checked, analysed) ==
    IF i > Len(files)
    THEN [exc |-> "none", dialect |-> None, checked |-> checked, analysed |-> analysed]
    ELSE IF ~isfile(files[i])
    THEN ForFiles_CatchAll(files, i + 1, h, Append(checked, i), analysed)
    ELSE LET a == analyze_file(files[i], h)
             ch == Append(checked, i)
             an == Append(analysed, i)
         IN IF a.exc = "none"
            THEN [exc |-> "none", dialect |-> a.dialect, checked |-> ch, analysed |-> an]
            ELSE ForFiles_CatchAll(files, i + 1, h, ch, an)

RECURSIVE ForFiles(_, _, _, _, _)
ForFiles(files, i, h, checked, analysed) ==
    IF i > Len(files)
    THEN [exc |-> "none", dialect |-> None, checked |-> checked, analysed |-> analysed]
    ELSE IF ~isfile(files[i])
    THEN [exc |-> "ValueError: file does not exist", dialect |-> None,
          checked |-> Append(checked, i), analysed |-> analysed]
    ELSE LET a == analyze_file(files[i], h)
             ch == Append(checked, i)
             an == Append(analysed, i)
         IN IF a.exc = "none"
            THEN [exc |-> "none", dialect |-> a.dialect, checked |-> ch, analysed |-> an]
            ELSE IF a.exc = "IOErrorEmptyFile"
            THEN ForFiles(files, i + 1, h, ch, an)
            ELSE [exc |-> a.exc, dialect |-> None, checked |-> ch, analysed |-> an]

(***************************************************************************)
(* get_dialect, after the branches: default the quoting, reject an unset   *)
(* delimiter.  d is the dialect object's attributes; the result gives the  *)
(* attributes after the assignments and how the call ends.                 *)
(***************************************************************************)
\* The quoting is left as it is.
DefaultQuoting_Never(d) == d

DefaultQuoting(d) ==
    IF d.quoting = None
    THEN [d EXCEPT !.quoting = get_quote_number(S("quote_minimal"))]
    ELSE d

\* The delimiter is not looked at.
DelimiterUnset_Never(d) == FALSE

DelimiterUnset(d) == d.delimiter = None

Validate(d) ==
    LET d2 == DefaultQuoting(d)
    IN IF DelimiterUnset(d2)
       THEN [kind |-> "raise", exc |-> "ValueError: Invalid Delimiter", attrs |-> d2]
       ELSE [kind |-> "return", exc |-> "none", attrs |-> d2]

(***************************************************************************)
(* get_dialect(files, delimiter, quotename, quotechar, recdelimiter,       *)
(* hasheader) called when csv.Dialect has the attributes cls.              *)
(*   result   how the call ends: return (ref: which object, val: its       *)
(*            attributes at the return), raise (exc) or exit (ENODATA)     *)
(*   cls      the attributes of csv.Dialect after the call                 *)
(***************************************************************************)
get_dialect(files, h, cls) ==
    IF files[1] = "-"
    THEN LET v == Validate(StdinDialect(h))
         IN [result |-> [kind |-> v.kind, exc |-> v.exc, ref |-> "csv.Dialect", val |-> v.attrs],
             cls |-> v.attrs, checked |-> <<>>, analysed |-> <<>>]
    ELSE LET l == ForFiles(files, 1, h, <<>>, <<>>)
         IN IF l.exc # "none"
            THEN [result |-> [kind |-> "raise", exc |-> l.exc, ref |-> "none", val |-> None],
                  cls |-> cls, checked |-> l.checked, analysed |-> l.analysed]
            ELSE IF l.dialect = None
            THEN [result |-> [kind |-> "exit", exc |-> "ENODATA", ref |-> "none", val |-> None],
                  cls |-> cls, checked |-> l.checked, analysed |-> l.analysed]
            ELSE LET v == Validate(l.dialect)
                 IN [result |-> [kind |-> v.kind, exc |-> v.exc, ref |-> "instance", val |-> v.attrs],
                     cls |-> cls, checked |-> l.checked, analysed |-> l.analysed]

(***************************************************************************)
(* FileTyper._count_records on a file given as the byte lengths of its     *)
(* lines.  read is the number of lines physically read.                    *)
(***************************************************************************)
RECURSIVE SumBytes(_, _)
SumBytes(lines, n) == IF n = 0 THEN 0 ELSE lines[n] + SumBytes(lines, n - 1)

\* A read_limit equal to the number of lines counts as a partial read.
ReadsWholeFile_Strict(lines, read_limit) ==
    read_limit = None \/ read_limit.v > Len(lines)

ReadsWholeFile(lines, read_limit) ==
    read_limit = None \/ read_limit.v >= Len(lines)

count_records(lines, read_limit) ==
    IF ReadsWholeFile(lines, read_limit)
    THEN [kind |-> "return", count |-> Len(lines), is_estimated |-> FALSE,
          read |-> Len(lines)]
    ELSE [kind |-> "return",
          count |-> (read_limit.v * SumBytes(lines, Len(lines)))
                      \div SumBytes(lines, read_limit.v),
          is_estimated |-> TRUE, read |-> read_limit.v]

(***************************************************************************)
(* colnames_to_coloff0(col_names, lookup_list).                            *)
(***************************************************************************)
\* dict((element, offset) for offset, element in enumerate(col_names)):
\* a later occurrence of a name overwrites an earlier one.
LastOffset(col_names, name) ==
    CHOOSE i \in DOMAIN col_names :
        col_names[i] = name /\ \A j \in DOMAIN col_names : col_names[j] = name => j <= i

colname_lookup(col_names) ==
    [name \in Range(col_names) |-> LastOffset(col_names, name) - 1]

colname_lookup_len(col_names) == Cardinality(DOMAIN colname_lookup(col_names))

colnames_to_coloff0(col_names, lookup_list) ==
    LET lookup == colname_lookup(col_names)
        found(x) == isnumeric(x) \/ x.v \in DOMAIN lookup
        res == [i \in DOMAIN lookup_list |->
                  IF isnumeric(lookup_list[i]) THEN int(lookup_list[i])
                  ELSE lookup[lookup_list[i].v]]
    IN IF \E i \in DOMAIN lookup_list : ~found(lookup_list[i])
       THEN [kind |-> "raise", exc |-> "KeyError: Column name not found in colname list",
             val |-> <<>>]
       ELSE IF /\ DOMAIN lookup # {}
               /\ \E i \in DOMAIN res : res[i] >= colname_lookup_len(col_names)
       THEN [kind |-> "raise", exc |-> "KeyError: column number not found in colname list",
             val |-> <<>>]
       ELSE [kind |-> "return", exc |-> "none", val |-> res]

(***************************************************************************)
(* The inputs.                                                             *)
(***************************************************************************)
Hints ==
    [delimiter    : {None, S(","), S("\"")},
     quotename    : {None, S("quote_all"), S("quote_none")},
     quotechar    : {None, S("\"")},
     recdelimiter : {None, S("\r\n")},
     hasheader    : {None, B(TRUE), B(FALSE)}]

FileLists == SeqsUpTo(Paths, MaxFiles) \ {<<>>}

LineLists == SeqsUpTo(1..MaxLineBytes, MaxLines)

ReadLimits == {None} \cup {N(k) : k \in 1..MaxReadLimit}

ColNames == {"a", "b"}

LookupItems ==
    {S(n) : n \in ColNames \cup {"z"}}
      \cup {N(k) : k \in 0..MaxCols}
      \cup {S(s) : s \in {"0", "1", "2"}}

NoArgs == [files |-> <<>>, hints |-> None, lines |-> <<>>, read_limit |-> None,
           col_names |-> <<>>, lookup_list |-> <<>>]

GetDialectArgs ==
    {[NoArgs EXCEPT !.files = f, !.hints = h] : f \in FileLists, h \in Hints}

CountRecordsArgs ==
    {[NoArgs EXCEPT !.lines = l, !.read_limit = r] : l \in LineLists, r \in ReadLimits}

ColnamesArgs ==
    {[NoArgs EXCEPT !.col_names = c, !.lookup_list = l] :
        c \in SeqsUpTo(ColNames, MaxCols), l \in SeqsUpTo(LookupItems, MaxLookups)}

\* The calls a caller that keeps an earlier dialect goes on to make.
LaterHints ==
    [delimiter    : {None, S(","), S("\"")},
     quotename    : {None, S("quote_all")},
     quotechar    : {S("\"")},
     recdelimiter : {None},
     hasheader    : {None, B(TRUE)}]

LaterArgs ==
    {[NoArgs EXCEPT !.files = f, !.hints = h] :
        f \in {<<"-">>, <<"data.csv">>, <<"empty.csv">>}, h \in LaterHints}

(***************************************************************************)
(* The state.                                                              *)
(*   op, args    the function called and its arguments                     *)
(*   pc          "call" before the function has run, "done" after          *)
(*   result      how the call ended                                        *)
(*   checked, analysed   positions of files on which isfile and            *)
(*               analyze_file were called during the get_dialect call      *)
(*   csvDialect  the attributes of the class csv.Dialect                   *)
(*   held        a dialect an earlier get_dialect call returned and the    *)
(*               caller kept: the object (ref; obj for an instance) and    *)
(*               its attributes when it was returned (snap)                *)
(***************************************************************************)
VARIABLES op, args, pc, result, checked, analysed, csvDialect, held

vars == <<op, args, pc, result, checked, analysed, csvDialect, held>>

NoResult == [kind |-> "none"]

ClassDefaults ==
    [delimiter |-> None, quoting |-> None, quotechar |-> None,
     lineterminator |-> None, hasheader |-> None]

InitWith(o, A) ==
    /\ op = o
    /\ args \in A
    /\ pc = "call"
    /\ result = NoResult
    /\ checked = <<>>
    /\ analysed = <<>>
    /\ csvDialect = ClassDefaults
    /\ held = None

Init ==
    \/ InitWith("get_dialect", GetDialectArgs)
    \/ InitWith("count_records", CountRecordsArgs)
    \/ InitWith("colnames_to_coloff0", ColnamesArgs)

GetDialect ==
    /\ pc = "call"
    /\ op = "get_dialect"
    /\ LET r == get_dialect(args.files, args.hints, csvDialect)
       IN /\ result' = r.result
          /\ csvDialect' = r.cls
          /\ checked' = r.checked
          /\ analysed' = r.analysed
    /\ pc' = "done"
    /\ UNCHANGED <<op, args, held>>

CountRecords ==
    /\ pc = "call"
    /\ op = "count_records"
    /\ result' = count_records(args.lines, args.read_limit)
    /\ pc' = "done"
    /\ UNCHANGED <<op, args, checked, analysed, csvDialect, held>>

ColnamesToColoff0 ==
    /\ pc = "call"
    /\ op = "colnames_to_coloff0"
    /\ result' = colnames_to_coloff0(args.col_names, args.lookup_list)
    /\ pc' = "done"
    /\ UNCHANGED <<op, args, checked, analysed, csvDialect, held>>

Next == GetDialect \/ CountRecords \/ ColnamesToColoff0

Spec == Init /\ [][Next]_vars

(***************************************************************************)
(* A caller that calls get_dialect again, possibly keeping the dialect the *)
(* call before returned.                                                   *)
(***************************************************************************)
Kept ==
    IF result.kind = "return"
    THEN {[ref |-> result.ref, snap |-> result.val, obj |-> result.val]}
    ELSE {}

CallAgain ==
    /\ pc = "done"
    /\ op = "get_dialect"
    /\ held' \in {held} \cup Kept
    /\ args' \in LaterArgs
    /\ pc' = "call"
    /\ result' = NoResult
    /\ checked' = <<>>
    /\ analysed' = <<>>
    /\ UNCHANGED <<op, csvDialect>>

InitCalls == InitWith("get_dialect", LaterArgs)

NextCalls == GetDialect \/ CallAgain

SpecCalls == InitCalls /\ [][NextCalls]_vars

\* The attributes the kept dialect has now.
HeldNow == IF held.ref = "csv.Dialect" THEN csvDialect ELSE held.obj

(***************************************************************************)
(* Properties of get_dialect.                                              *)
(***************************************************************************)
Returned(o) == pc = "done" /\ op = o
Files == args.files
FileBranch == Returned("get_dialect") /\ Files[1] # "-"
StdinBranch == Returned("get_dialect") /\ Files[1] = "-"
UpTo(n) == [i \in 1..n |-> i]
NonEmptyFile(fn) == isfile(fn) /\ LineCount(fn) > 0
EmptyFile(fn) == isfile(fn) /\ LineCount(fn) = 0
\* The first position whose candidate satisfies P.
First(P(_)) ==
    CHOOSE i \in DOMAIN Files : P(Files[i]) /\ \A j \in 1..(i - 1) : ~P(Files[j])
C1_Case ==
    /\ FileBranch
    /\ \A i \in DOMAIN Files : isfile(Files[i])
    /\ \E i \in DOMAIN Files : NonEmptyFile(Files[i])
\* The dialect get_dialect makes of the analysis of candidate k.
DialectOf(k) == DefaultQuoting(analyze_file(Files[k], args.hints).dialect)
Succeeds(k) ==
    /\ analyze_file(Files[k], args.hints).exc = "none"
    /\ analyze_file(Files[k], args.hints).dialect.delimiter # None

\* C1 as claimed: on existing candidates, not starting with "-", of which
\* one is non-empty, get_dialect returns the dialect of the first non-empty
\* candidate, having analysed exactly the candidates up to it.
C1_Original ==
    C1_Case =>
        LET k == First(NonEmptyFile)
        IN /\ result.kind = "return"
           /\ result.val = DialectOf(k)
           /\ analysed = UpTo(k)

\* C1 amended: on such a list get_dialect analyses exactly the candidates
\* up to the first non-empty one, in order, all before it being empty;
\* it returns the dialect of that candidate when its analysis raises no
\* error and sets a delimiter, and otherwise ends with an error.
C1_FirstNonEmpty ==
    C1_Case =>
        LET k == First(NonEmptyFile)
        IN /\ analysed = UpTo(k)
           /\ checked = UpTo(k)
           /\ \A j \in 1..(k - 1) : EmptyFile(Files[j])
           /\ Succeeds(k) =>
                /\ result.kind = "return"
                /\ result.ref = "instance"
                /\ result.val = DialectOf(k)
           /\ ~Succeeds(k) => result.kind = "raise"

C1_Witness ==
    /\ C1_Case
    /\ Files = <<"empty.csv", "data.csv">>
    /\ result.kind = "return"
    /\ result.val.delimiter = S("|")
    /\ analysed = <<1, 2>>

\* C2: get_dialect exits with ENODATA if and only if every candidate is an
\* existing empty file; then no dialect is returned and every candidate
\* was tried once, in order.
C2_NoDataIffAllEmpty ==
    Returned("get_dialect") =>
        /\ (result.kind = "exit") <=> (\A i \in DOMAIN Files : EmptyFile(Files[i]))
        /\ result.kind = "exit" =>
             /\ result.exc = "ENODATA"
             /\ result.ref = "none"
             /\ result.val = None
             /\ checked = UpTo(Len(Files))
             /\ analysed = UpTo(Len(Files))

C2_Witness ==
    /\ Returned("get_dialect")
    /\ Files = <<"empty.csv", "empty.csv">>
    /\ result.kind = "exit"
    /\ analysed = <<1, 2>>

\* C3 as claimed: a dialect an earlier call returned has, after every
\* later call, the attributes it had when it was returned.
C3_ReturnedDialectUnaltered ==
    held # None =>
        /\ HeldNow.delimiter = held.snap.delimiter
        /\ HeldNow.quoting = held.snap.quoting
        /\ HeldNow.quotechar = held.snap.quotechar
        /\ HeldNow.lineterminator = held.snap.lineterminator
        /\ HeldNow.hasheader = held.snap.hasheader

\* C4 as claimed: in a returned dialect the delimiter and the quote
\* character differ.
C4_DelimiterDiffersFromQuotechar ==
    (Returned("get_dialect") /\ result.kind = "return") =>
        result.val.delimiter # result.val.quotechar

\* C5: a returned dialect has a delimiter; a call that resolves no
\* delimiter raises, in the stdin branch without touching any file.
C5_NoUnsetDelimiter ==
    /\ (Returned("get_dialect") /\ result.kind = "return") =>
          result.val.delimiter # None
    /\ (StdinBranch /\ args.hints.delimiter = None) =>
          /\ result.kind = "raise"
          /\ result.val.delimiter = None
          /\ checked = <<>>
          /\ analysed = <<>>
    /\ (FileBranch /\ analysed # <<>> /\ args.hints.delimiter = None) =>
          LET fn == Files[analysed[Len(analysed)]]
          IN (NonEmptyFile(fn) /\ Sniff(fn).delimiter = None) => result.kind = "raise"

C5_Witness ==
    /\ StdinBranch
    /\ args.hints.delimiter = None
    /\ result.kind = "raise"
    /\ result.exc = "ValueError: Invalid Delimiter"

\* The quoting get_dialect has before it assigns the default.
ResolvedQuoting ==
    LET hint == get_quote_number(args.hints.quotename)
    IN IF Files[1] = "-" \/ hint # None THEN hint
       ELSE Sniff(Files[analysed[Len(analysed)]]).quoting

\* C6: a returned dialect's quoting is one of the four quoting values:
\* QUOTE_MINIMAL when resolution left it unset, else the resolved value.
C6_QuotingSet ==
    (Returned("get_dialect") /\ result.kind = "return") =>
        /\ result.val.quoting # None
        /\ result.val.quoting \in QuotingValues
        /\ ResolvedQuoting = None => result.val.quoting = N(QuoteNumbers.quote_minimal)
        /\ ResolvedQuoting # None => result.val.quoting = ResolvedQuoting

C6_Witness ==
    /\ Returned("get_dialect")
    /\ result.kind = "return"
    /\ ResolvedQuoting = None
    /\ result.val.quoting = N(0)

\* C7 as claimed: with "-" as the sole source no candidate is checked or
\* analysed and each attribute of the returned dialect is the caller's hint.
C7_StdinFromHints ==
    (StdinBranch /\ Len(Files) = 1) =>
        /\ checked = <<>>
        /\ analysed = <<>>
        /\ result.kind = "return" =>
             LET h == args.hints
                 d == result.val
             IN /\ d.delimiter = h.delimiter
                /\ h.quotechar # None => d.quotechar = h.quotechar
                /\ h.quotename # None => d.quoting = get_quote_number(h.quotename)
                /\ h.recdelimiter # None => d.lineterminator = h.recdelimiter
                /\ h.hasheader # None => d.hasheader = h.hasheader

\* C8: only the empty-file error moves the loop on; a missing candidate or
\* another analysis error ends the call with that error, no later candidate
\* being examined and no dialect returned.
NotSkipped(fn) == ~EmptyFile(fn)
C8_OnlyEmptyFileCaught ==
    FileBranch =>
        /\ result.exc # "IOErrorEmptyFile"
        /\ (\E i \in DOMAIN Files : NotSkipped(Files[i])) =>
             LET k == First(NotSkipped)
                 a == analyze_file(Files[k], args.hints)
             IN /\ checked = UpTo(k)
                /\ ~isfile(Files[k]) =>
                     /\ result.kind = "raise"
                     /\ result.exc = "ValueError: file does not exist"
                     /\ result.ref = "none"
                     /\ analysed = UpTo(k - 1)
                /\ (isfile(Files[k]) /\ a.exc # "none") =>
                     /\ result.kind = "raise"
                     /\ result.exc = a.exc
                     /\ result.ref = "none"
                     /\ analysed = UpTo(k)

C8_Witness ==
    /\ FileBranch
    /\ Len(Files) = 2
    /\ Files[2] = "data.csv"
    /\ result.kind = "raise"
    /\ result.exc \in {"ValueError: file does not exist", "AmbiguousDialectError"}
    /\ checked = <<1>>

(***************************************************************************)
(* Properties of _count_records.                                           *)
(***************************************************************************)
\* C9: the count is exact and not estimated when read_limit is unset or at
\* least the number of lines; it is estimated exactly when read_limit is
\* set and smaller, and then fewer lines were read than the file holds.
C9_EstimatedIffLimited ==
    Returned("count_records") =>
        LET n == Len(args.lines)
            lim == args.read_limit
        IN /\ (lim = None \/ lim.v >= n) =>
                (result.is_estimated = FALSE /\ result.count = n)
           /\ result.is_estimated <=> (lim # None /\ lim.v < n)
           /\ result.is_estimated => result.read < n

C9_Witness ==
    /\ Returned("count_records")
    /\ args.read_limit = N(2)
    /\ Len(args.lines) = 3
    /\ result.is_estimated

(***************************************************************************)
(* Properties of colnames_to_coloff0.                                      *)
(***************************************************************************)
\* C10 as claimed: for non-empty col_names the call raises KeyError exactly
\* when a name of lookup_list is not in col_names or an offset is at least
\* len(col_names); otherwise it returns, position by position, the offset
\* of each name and the integer of each numeric item.
C10_LookupResult ==
    (Returned("colnames_to_coloff0") /\ args.col_names # <<>>) =>
        LET cols == args.col_names
            look == args.lookup_list
            missing(x) == ~isnumeric(x) /\ x.v \notin Range(cols)
            beyond(x) == isnumeric(x) /\ int(x) >= Len(cols)
            bad == \E i \in DOMAIN look : missing(look[i]) \/ beyond(look[i])
        IN /\ (result.kind = "raise") <=> bad
           /\ ~bad =>
                /\ Len(result.val) = Len(look)
                /\ \A i \in DOMAIN look :
                     IF isnumeric(look[i])
                     THEN result.val[i] = int(look[i])
                     ELSE cols[result.val[i] + 1] = look[i].v

====
